---- MODULE Spec2Model ----
(***************************************************************************)
(* Model of the WBCD data gallery (umi-gallery): the dataset catalog, the  *)
(* gallery controller UmiGallery, the DatasetCard tile and the two viewer  *)
(* adapters RerunViewer and FoxgloveViewer.                                *)
(*                                                                         *)
(* JavaScript strings that the code inspects character by character (file  *)
(* references, URLs) are sequences of one-character strings.  A topic path *)
(* is kept as the sequence topic.split('/') of its segments.  A descriptor *)
(* reference held by the controller is the position of the descriptor in   *)
(* DATASETS, and no selection is 0.                                        *)
(***************************************************************************)
EXTENDS Integers, Sequences, FiniteSets, TLC

\* ------------------------------------------------------------------ bounds

\* Card clicks in one behaviour.
MaxClicks == 3

\* Characters of a file reference tried character by character.
MaxRefLen == 5

\* Topic paths in one category of a card's descriptor.
MaxTopics == 3

\* The clicks, each rendering the grid again, of a run with thumbnail failures.
MaxRerenders == 2

\* ------------------------------------------------------------ JS values

\* The value of a missing property or prop: no character sequence equals it.
undefined == << "undefined" >>

\* null where the code expects a string.
null == << "null" >>

\* useState(null): the selection that is no descriptor.
NoSelection == 0

\* JavaScript property access d.f, undefined when d has no property f.
Prop(d, f) == IF f \in DOMAIN d THEN d[f] ELSE undefined

Last(s) == s[Len(s)]

\* ------------------------------------------------------------ the catalog

\* './rrd/<file>.rrd'
RrdPath(file) ==
  << ".", "/", "r", "r", "d", "/" >> \o file \o << ".", "r", "r", "d" >>

\* './thumbnails/<file>.jpg'
ThumbnailPath(file) ==
  << ".", "/", "t", "h", "u", "m", "b", "n", "a", "i", "l", "s", "/" >>
    \o file \o << ".", "j", "p", "g" >>

\* ------------------------------------------------------------ strings

LowerCase ==
  << "a", "b", "c", "d", "e", "f", "g", "h", "i", "j", "k", "l", "m", "n", "o", "p",
     "q", "r", "s", "t", "u", "v", "w", "x", "y", "z" >>

UpperCase ==
  << "A", "B", "C", "D", "E", "F", "G", "H", "I", "J", "K", "L", "M", "N", "O", "P",
     "Q", "R", "S", "T", "U", "V", "W", "X", "Y", "Z" >>

Digits == { "0", "1", "2", "3", "4", "5", "6", "7", "8", "9" }

Range(s) == { s[k] : k \in 1 .. Len(s) }

Alpha == Range(LowerCase) \cup Range(UpperCase)

ToLowerChar(c) ==
  IF c \in Range(UpperCase)
    THEN LowerCase[CHOOSE k \in 1 .. Len(UpperCase) : UpperCase[k] = c]
    ELSE c

ToLower(s) == [ k \in 1 .. Len(s) |-> ToLowerChar(s[k]) ]

\* s.startsWith(prefix)
startsWith(s, prefix) ==
  Len(s) >= Len(prefix) /\ SubSeq(s, 1, Len(prefix)) = prefix

\* s.includes(sub)
includes(s, sub) ==
  \E k \in 0 .. Len(s) - Len(sub) : SubSeq(s, k + 1, k + Len(sub)) = sub

\* s.indexOf(c) + 1: the first position of c in s, 0 when there is none.
IndexOf(s, c) ==
  IF c \in Range(s)
    THEN CHOOSE k \in 1 .. Len(s) : s[k] = c /\ \A m \in 1 .. k - 1 : s[m] # c
    ELSE 0

\* s.split(sep)
RECURSIVE Split(_, _)
Split(s, sep) ==
  LET k == IndexOf(s, sep) IN
  IF k = 0 THEN << s >>
  ELSE << SubSeq(s, 1, k - 1) >> \o Split(SubSeq(s, k + 1, Len(s)), sep)

\* Boolean(s) of a string or undefined: neither undefined nor ''.
Truthy(s) == s # undefined /\ s # << >>

\* ------------------------------------------------------------ new URL(r, base)
\* The URL parser of the browser on the references of this model: no
\* whitespace, query, fragment, userinfo, backslash or percent sign, no
\* numeric host, no file: scheme.  A parsed URL is a record of scheme, host,
\* port and path (a sequence of segments); the parser returns the href or
\* fails, and new URL throws a TypeError where it fails.

Failure == [ failure |-> TRUE, href |-> << >> ]

Parsed(href) == [ failure |-> FALSE, href |-> href ]

SpecialSchemes ==
  { << "h", "t", "t", "p" >>, << "h", "t", "t", "p", "s" >>, << "f", "t", "p" >>,
    << "w", "s" >>, << "w", "s", "s" >> }

DefaultPort(scheme) ==
  CASE scheme \in { << "h", "t", "t", "p" >>, << "w", "s" >> } -> << "8", "0" >>
    [] scheme \in { << "h", "t", "t", "p", "s" >>, << "w", "s", "s" >> } -> << "4", "4", "3" >>
    [] scheme = << "f", "t", "p" >> -> << "2", "1" >>
    [] OTHER -> << >>

\* The position of the ':' that ends the scheme of r, 0 when r has no scheme:
\* a letter, then letters, digits, '+', '-' and '.', then ':'.
SchemeEnd(r) ==
  LET k == IndexOf(r, ":") IN
  IF /\ k > 1
     /\ r[1] \in Alpha
     /\ \A m \in 2 .. k - 1 : r[m] \in Alpha \cup Digits \cup { "+", "-", "." }
    THEN k ELSE 0

RECURSIVE StripSlashes(_)
StripSlashes(s) ==
  IF s # << >> /\ Head(s) = "/" THEN StripSlashes(Tail(s)) ELSE s

RECURSIVE StripZeros(_)
StripZeros(s) ==
  IF Len(s) > 1 /\ Head(s) = "0" THEN StripZeros(Tail(s)) ELSE s

\* Shorten a path: drop its last segment.
Shorten(path) ==
  IF path = << >> THEN path ELSE SubSeq(path, 1, Len(path) - 1)

\* The path state: the segments of the input in order; '.' is skipped, '..'
\* drops the last segment, and either leaves an empty segment when it is last.
RECURSIVE PathState(_, _)
PathState(path, segs) ==
  IF segs = << >> THEN path
  ELSE LET seg == Head(segs)
           last == Len(segs) = 1
       IN  IF seg = << ".", "." >>
             THEN PathState(IF last THEN Append(Shorten(path), << >>)
                                    ELSE Shorten(path), Tail(segs))
           ELSE IF seg = << "." >>
             THEN PathState(IF last THEN Append(path, << >>) ELSE path, Tail(segs))
           ELSE PathState(Append(path, seg), Tail(segs))

\* The path serialised: '/' before every segment.
RECURSIVE PathString(_)
PathString(path) ==
  IF path = << >> THEN << >>
  ELSE << "/" >> \o Head(path) \o PathString(Tail(path))

\* scheme://host[:port]
Origin(url) ==
  url.scheme \o << ":", "/", "/" >> \o url.host
    \o (IF url.port = << >> THEN << >> ELSE << ":" >> \o url.port)

\* url.href
Href(url) == Origin(url) \o PathString(url.path)

\* The authority state and what follows it: s is the input after the slashes
\* that introduce the authority.
AuthorityState(scheme, s) ==
  LET special == scheme \in SpecialSchemes
      slash == IndexOf(s, "/")
      authority == IF slash = 0 THEN s ELSE SubSeq(s, 1, slash - 1)
      colon == IndexOf(authority, ":")
      rawHost == IF colon = 0 THEN authority ELSE SubSeq(authority, 1, colon - 1)
      host == IF special THEN ToLower(rawHost) ELSE rawHost
      rawPort == IF colon = 0 THEN << >>
                 ELSE SubSeq(authority, colon + 1, Len(authority))
      port == IF rawPort = << >> \/ StripZeros(rawPort) = DefaultPort(scheme)
                THEN << >> ELSE StripZeros(rawPort)
      path == IF slash = 0
                THEN (IF special THEN << << >> >> ELSE << >>)
                ELSE PathState(<< >>, Split(SubSeq(s, slash + 1, Len(s)), "/"))
  IN  IF host = << >> /\ (special \/ colon # 0) THEN Failure
      ELSE IF \E k \in 1 .. Len(rawPort) : rawPort[k] \notin Digits THEN Failure
      ELSE Parsed(Href([ scheme |-> scheme, host |-> host, port |-> port,
                         path |-> path ]))

\* The relative state: r has no scheme of its own and base is an http(s) URL.
RelativeState(r, base) ==
  IF r = << >> THEN Parsed(Href(base))
  ELSE IF startsWith(r, << "/", "/" >>)
    THEN AuthorityState(base.scheme, StripSlashes(r))
  ELSE IF Head(r) = "/"
    THEN Parsed(Origin(base) \o PathString(PathState(<< >>, Split(Tail(r), "/"))))
  ELSE Parsed(Origin(base)
                \o PathString(PathState(Shorten(base.path), Split(r, "/"))))

\* new URL(r, base).href
URLResolve(r, base) ==
  LET k == SchemeEnd(r)
      scheme == ToLower(SubSeq(r, 1, k - 1))
      rest == SubSeq(r, k + 1, Len(r))
  IN  IF k = 0 THEN RelativeState(r, base)
      ELSE IF scheme \in SpecialSchemes
        THEN IF scheme = base.scheme /\ ~startsWith(rest, << "/", "/" >>)
               THEN RelativeState(rest, base)
               ELSE AuthorityState(scheme, StripSlashes(rest))
      ELSE IF startsWith(rest, << "/", "/" >>)
        THEN AuthorityState(scheme, SubSeq(rest, 3, Len(rest)))
      ELSE IF startsWith(rest, << "/" >>)
        THEN LET path == PathState(<< >>, Split(Tail(rest), "/"))
             IN  Parsed(scheme \o << ":" >>
                          \o (IF Len(path) > 1 /\ path[1] = << >>
                                THEN << "/", "." >> ELSE << >>)
                          \o PathString(path))
      ELSE Parsed(scheme \o << ":" >> \o rest)

\* ------------------------------------------------------------ URLSearchParams

FormUnreserved ==
  Alpha \cup Digits \cup { "*", "-", ".", "_" }

\* The two hexadecimal digits of the byte of an ASCII character that the
\* serialiser escapes.
HexOf(c) ==
  CASE c = "/" -> << "2", "F" >>
    [] c = ":" -> << "3", "A" >>
    [] c = "%" -> << "2", "5" >>
    [] c = "?" -> << "3", "F" >>
    [] c = "#" -> << "2", "3" >>
    [] c = "&" -> << "2", "6" >>
    [] c = "=" -> << "3", "D" >>
    [] c = "+" -> << "2", "B" >>
    [] c = "@" -> << "4", "0" >>
    [] c = "~" -> << "7", "E" >>

\* The escaping of encodeURI, which leaves the delimiters of a URL as they are.
FormEncodeChar_encodeURI(c) ==
  IF c \in FormUnreserved \cup { "/", ":", "?", "#", "&", "=", "+", "@", "~" }
    THEN << c >>
  ELSE IF c = " " THEN << "%", "2", "0" >>
  ELSE << "%" >> \o HexOf(c)

\* The application/x-www-form-urlencoded byte serialiser on one character.
FormEncodeChar(c) ==
  IF c \in FormUnreserved THEN << c >>
  ELSE IF c = " " THEN << "+" >>
  ELSE << "%" >> \o HexOf(c)

RECURSIVE FormEncode(_)
FormEncode(s) ==
  IF s = << >> THEN << >> ELSE FormEncodeChar(Head(s)) \o FormEncode(Tail(s))

\* params.set(name, value) on a list of name-value pairs: the first pair of
\* that name gets the value and the others of that name go; with none, the
\* pair is appended.
ParamsSet(params, name, value) ==
  LET hits == { k \in 1 .. Len(params) : params[k].name = name } IN
  IF hits = { } THEN Append(params, [ name |-> name, value |-> value ])
  ELSE LET first == CHOOSE k \in hits : \A m \in hits : k <= m
           keep == { k \in 1 .. Len(params) : k = first \/ k \notin hits }
           Nth(n) == CHOOSE k \in keep : Cardinality({ m \in keep : m < k }) = n - 1
       IN  [ n \in 1 .. Cardinality(keep) |->
               IF Nth(n) = first THEN [ name |-> name, value |-> value ]
               ELSE params[Nth(n)] ]

\* params.toString()
RECURSIVE ParamsToString(_)
ParamsToString(params) ==
  IF params = << >> THEN << >>
  ELSE FormEncode(Head(params).name) \o << "=" >> \o FormEncode(Head(params).value)
         \o (IF Len(params) > 1 THEN << "&" >> ELSE << >>)
         \o ParamsToString(Tail(params))

\* ------------------------------------------------------------ viewer adapters

http == << "h", "t", "t", "p" >>

\* const baseUrl = 'https://embed.foxglove.dev'
baseUrl ==
  << "h", "t", "t", "p", "s", ":", "/", "/", "e", "m", "b", "e", "d", ".", "f", "o",
     "x", "g", "l", "o", "v", "e", ".", "d", "e", "v" >>

\* RerunViewer's fullUrl: rrdUrl when it starts with 'http', else its
\* resolution against window.location.href, else null.
fullUrl(rrdUrl, location) ==
  IF rrdUrl # undefined /\ startsWith(rrdUrl, http) THEN Parsed(rrdUrl)
  ELSE IF Truthy(rrdUrl) THEN URLResolve(rrdUrl, location)
  ELSE [ failure |-> FALSE, href |-> null ]

\* export default function RerunViewer({ rrdUrl })
RerunViewer(rrdUrl, location) ==
  LET full == fullUrl(rrdUrl, location)
      newURL == Truthy(rrdUrl) /\ ~startsWith(rrdUrl, http)
  IN  IF full.failure
        THEN [ kind |-> "throw", error |-> "TypeError", newURL |-> newURL ]
      ELSE IF full.href = null
        THEN [ kind |-> "placeholder", text |-> "No dataset selected",
               newURL |-> newURL ]
      ELSE [ kind |-> "embed", element |-> "WebViewer", rrd |-> full.href,
             overlay |-> rrdUrl, newURL |-> newURL ]

\* FoxgloveViewer's fullMcapUrl, for a truthy mcapUrl.
fullMcapUrl(mcapUrl, location) ==
  IF startsWith(mcapUrl, http) THEN Parsed(mcapUrl)
  ELSE URLResolve(mcapUrl, location)

\* The useMemo callback of FoxgloveViewer: the iframe target, null for no
\* mcapUrl.
foxgloveUrl(mcapUrl, location) ==
  IF ~Truthy(mcapUrl) THEN [ failure |-> FALSE, href |-> null ]
  ELSE LET full == fullMcapUrl(mcapUrl, location)
           params == ParamsSet(
                       ParamsSet(<< >>, << "d", "s" >>,
                                 << "r", "e", "m", "o", "t", "e", "-", "f", "i", "l", "e" >>),
                       << "d", "s", ".", "u", "r", "l" >>, full.href)
       IN  IF full.failure THEN Failure
           ELSE Parsed(baseUrl \o << "?" >> \o ParamsToString(params))

\* export default function FoxgloveViewer({ mcapUrl, layoutType })
FoxgloveViewer(mcapUrl, location) ==
  LET target == foxgloveUrl(mcapUrl, location)
      newURL == Truthy(mcapUrl) /\ ~startsWith(mcapUrl, http)
  IN  IF target.failure
        THEN [ kind |-> "throw", error |-> "TypeError", newURL |-> newURL ]
      ELSE IF ~Truthy(mcapUrl)
        THEN [ kind |-> "placeholder", text |-> "No dataset selected",
               newURL |-> newURL ]
      ELSE [ kind |-> "embed", element |-> "iframe", src |-> target.href,
             fullMcapUrl |-> fullMcapUrl(mcapUrl, location).href,
             overlay |-> mcapUrl, newURL |-> newURL ]

File_clean_bowl ==
  << "c", "l", "e", "a", "n", "_", "b", "o", "w", "l" >>

File_unscrew_bottle_cap_and_pour ==
  << "u", "n", "s", "c", "r", "e", "w", "_", "b", "o", "t", "t", "l", "e", "_", "c",
     "a", "p", "_", "a", "n", "d", "_", "p", "o", "u", "r" >>

File_dm_insert_episode_0 ==
  << "d", "m", "_", "i", "n", "s", "e", "r", "t", "_", "e", "p", "i", "s", "o", "d",
     "e", "_", "0" >>

File_tacexo_fold_towels_episode_0 ==
  << "t", "a", "c", "e", "x", "o", "_", "f", "o", "l", "d", "_", "t", "o", "w", "e",
     "l", "s", "_", "e", "p", "i", "s", "o", "d", "e", "_", "0" >>

File_lumos_task1 ==
  << "l", "u", "m", "o", "s", "_", "t", "a", "s", "k", "1" >>

File_lumos_task2 ==
  << "l", "u", "m", "o", "s", "_", "t", "a", "s", "k", "2" >>

File_zip_clothes ==
  << "z", "i", "p", "_", "c", "l", "o", "t", "h", "e", "s" >>

\* export const DATASETS = [ ... ]: the six descriptors of data/datasets.js.
datasets_js ==
  << [ id |-> "genrobot-1",
      name |-> "Clean Bowl",
      source |-> "Genrobot",
      description |-> "Bimanual bowl cleaning task demonstrating coordinated manipulation",
      thumbnail |-> ThumbnailPath(File_clean_bowl),
      rrdUrl |-> RrdPath(File_clean_bowl),
      topics |->
              [ transforms |-> << << "", "robot0", "vio", "eef_pose" >>,
                          << "", "robot1", "vio", "eef_pose" >> >>,
                cameras |-> << << "", "robot0", "sensor", "camera0" >>,
                          << "", "robot1", "sensor", "camera0" >> >> ] ],

  [ id |-> "genrobot-2",
      name |-> "Unscrew Bottle Cap and Pour",
      source |-> "Genrobot",
      description |-> "Fine manipulation task: unscrewing cap and pouring liquid",
      thumbnail |-> ThumbnailPath(File_unscrew_bottle_cap_and_pour),
      rrdUrl |-> RrdPath(File_unscrew_bottle_cap_and_pour),
      topics |->
              [ transforms |-> << << "", "robot0", "vio", "eef_pose" >>,
                          << "", "robot1", "vio", "eef_pose" >> >>,
                cameras |-> << << "", "robot0", "sensor", "camera0" >>,
                          << "", "robot1", "sensor", "camera0" >> >> ] ],

  [ id |-> "dm-insert-1",
      name |-> "Memory Cube Insert",
      source |-> "DAIMON",
      description |-> "Precision insertion task with 8-DOF arm and tactile sensing (DM Robotics)",
      thumbnail |-> ThumbnailPath(File_dm_insert_episode_0),
      rrdUrl |-> RrdPath(File_dm_insert_episode_0),
      topics |->
              [ cameras |-> << << "", "cameras", "top" >>,
                          << "", "cameras", "wrist" >>,
                          << "", "cameras", "tactile" >> >>,
                scalars |-> << << "", "observation", "state" >>,
                          << "", "action" >> >> ] ],

  [ id |-> "dm-tacexo-1",
      name |-> "Fold Towels (TacExo)",
      source |-> "DAIMON",
      description |-> "Bimanual glove manipulation with thumb tactile sensing (TacExo)",
      thumbnail |-> ThumbnailPath(File_tacexo_fold_towels_episode_0),
      rrdUrl |-> RrdPath(File_tacexo_fold_towels_episode_0),
      topics |->
              [ cameras |-> << << "", "cameras", "third_view" >>,
                          << "", "tactile", "left_thumb" >>,
                          << "", "tactile", "right_thumb" >> >>,
                scalars |-> << << "", "fingers" >> >> ] ],

  [ id |-> "lumos-task-1",
      name |-> "Object Packing: Light Bulb",
      source |-> "Lumos",
      description |-> "Bimanual manipulation task of packing a single light bulb into a small box",
      thumbnail |-> ThumbnailPath(File_lumos_task1),
      rrdUrl |-> RrdPath(File_lumos_task1),
      topics |->
              [ transforms |-> << << "world", "left_hand", "eef" >>,
                          << "world", "right_hand", "eef" >> >>,
                cameras |-> << << "world", "left_hand", "camera" >>,
                          << "world", "right_hand", "camera" >> >> ] ],

  [ id |-> "lumos-task-2",
      name |-> "Object Packing: Cups",
      source |-> "Lumos",
      description |-> "Pack 2 water cups into a large box",
      thumbnail |-> ThumbnailPath(File_lumos_task2),
      rrdUrl |-> RrdPath(File_lumos_task2),
      topics |->
              [ transforms |-> << << "world", "left_hand", "eef" >>,
                          << "world", "right_hand", "eef" >> >>,
                cameras |-> << << "world", "left_hand", "camera" >>,
                          << "world", "right_hand", "camera" >> >> ] ] >>

\* export const DATASETS = [ ... ]: the three descriptors of the Genrobot-only
\* copy of the catalog.
datasets_genrobot ==
  << [ id |-> "genrobot-1",
      name |-> "Clean Bowl",
      source |-> "Genrobot",
      description |-> "Bimanual bowl cleaning task demonstrating coordinated manipulation",
      thumbnail |-> ThumbnailPath(File_clean_bowl),
      rrdUrl |-> RrdPath(File_clean_bowl),
      topics |->
              [ transforms |-> << << "", "robot0", "vio", "eef_pose" >>,
                          << "", "robot1", "vio", "eef_pose" >> >>,
                cameras |-> << << "", "robot0", "sensor", "camera0" >>,
                          << "", "robot1", "sensor", "camera0" >> >> ] ],

  [ id |-> "genrobot-2",
      name |-> "Unscrew Bottle Cap and Pour",
      source |-> "Genrobot",
      description |-> "Fine manipulation task: unscrewing cap and pouring liquid",
      thumbnail |-> ThumbnailPath(File_unscrew_bottle_cap_and_pour),
      rrdUrl |-> RrdPath(File_unscrew_bottle_cap_and_pour),
      topics |->
              [ transforms |-> << << "", "robot0", "vio", "eef_pose" >>,
                          << "", "robot1", "vio", "eef_pose" >> >>,
                cameras |-> << << "", "robot0", "sensor", "camera0" >>,
                          << "", "robot1", "sensor", "camera0" >> >> ] ],

  [ id |-> "genrobot-3",
      name |-> "Zip Clothes",
      source |-> "Genrobot",
      description |-> "Precision zipping task with deformable garment handling",
      thumbnail |-> ThumbnailPath(File_zip_clothes),
      rrdUrl |-> RrdPath(File_zip_clothes),
      topics |->
              [ transforms |-> << << "", "robot0", "vio", "eef_pose" >>,
                          << "", "robot1", "vio", "eef_pose" >> >>,
                cameras |-> << << "", "robot0", "sensor", "camera0" >>,
                          << "", "robot1", "sensor", "camera0" >> >> ] ] >>

\* datasets.js with the second entry pasted from the first and its id left as
\* it was.
DATASETS_pastedId == [ datasets_js EXCEPT ![2].id = datasets_js[1].id ]

\* import { DATASETS, DATA_SOURCE } from '../data/datasets'
DATASETS == datasets_js

\* ------------------------------------------------------------ DatasetCard

\* The topic tags with the slice(0, 2) left out.
TopicTags_noSlice(dataset) ==
  LET transforms == IF "transforms" \in DOMAIN dataset.topics
                      THEN dataset.topics.transforms ELSE << >>
  IN  [ k \in 1 .. Len(transforms) |->
          [ text |-> Last(transforms[k]), truncate |-> TRUE ] ]
        \o (IF "tactile" \in DOMAIN dataset.topics
              THEN << [ text |-> "tactile", truncate |-> FALSE ] >>
              ELSE << >>)

\* The topic tags of a card: the last path segment of the first two
\* transforms, then the tactile tag when the descriptor has tactile topics.
TopicTags(dataset) ==
  LET transforms == IF "transforms" \in DOMAIN dataset.topics
                      THEN dataset.topics.transforms ELSE << >>
      slice == SubSeq(transforms, 1, IF Len(transforms) < 2 THEN Len(transforms) ELSE 2)
  IN  [ k \in 1 .. Len(slice) |-> [ text |-> Last(slice[k]), truncate |-> TRUE ] ]
        \o (IF "tactile" \in DOMAIN dataset.topics
              THEN << [ text |-> "tactile", truncate |-> FALSE ] >>
              ELSE << >>)

\* 'placeholder'
placeholder == << "p", "l", "a", "c", "e", "h", "o", "l", "d", "e", "r" >>

\* The thumbnail area of a card: the <img> of dataset.thumbnail when there is
\* one and it does not contain 'placeholder', the fallback icon otherwise.
Thumbnail(dataset) ==
  LET thumbnail == Prop(dataset, "thumbnail") IN
  IF Truthy(thumbnail) /\ ~includes(thumbnail, placeholder)
    THEN [ type |-> "img", src |-> thumbnail, alt |-> dataset.name ]
    ELSE [ type |-> "icon", gradient |-> dataset.source ]

\* export default function DatasetCard({ dataset, isActive, onClick })
DatasetCard(dataset, active) ==
  [ kind |-> "card",
    thumbnail |-> Thumbnail(dataset),
    name |-> dataset.name,
    description |-> dataset.description,
    sourceBadge |-> dataset.source,
    activeIndicator |-> active,
    tags |-> TopicTags(dataset) ]

\* ------------------------------------------------------------ gallery state

VARIABLES
  catalog,          \* the DATASETS array the controller imports
  selectedDataset,  \* useState(null): null or the position of a descriptor
  timers,           \* pending setTimeout callbacks, oldest first
  viewer,           \* the mounted RerunViewer instances (none or one)
  clickLog,         \* history: the cards clicked, in order
  scrollLog,        \* history: the scroll callbacks that ran, in order
  thumbnails,       \* the DOM of the thumbnail area of each card of the grid
  location,         \* window.location, parsed
  fileRef,          \* the rrdUrl / mcapUrl prop of an adapter rendered alone
  rerunView,        \* what RerunViewer returned for fileRef
  foxgloveView,     \* what FoxgloveViewer returned for fileRef
  cardProps,        \* the props of a DatasetCard rendered alone
  cardView          \* what DatasetCard returned for cardProps

galleryVars ==
  << catalog, selectedDataset, timers, viewer, clickLog, scrollLog, thumbnails >>

adapterVars == << fileRef, rerunView, foxgloveView >>

cardVars == << cardProps, cardView >>

vars == << galleryVars, location, adapterVars, cardVars >>

\* A component that has not been rendered.
Unrendered == [ kind |-> "unrendered" ]

\* https://example.org/gallery/
GalleryPage ==
  [ scheme |-> << "h", "t", "t", "p", "s" >>,
    host |-> << "e", "x", "a", "m", "p", "l", "e", ".", "o", "r", "g" >>,
    port |-> << >>,
    path |-> << << "g", "a", "l", "l", "e", "r", "y" >>, << >> >> ]

\* https://example.org/gallery/index.html
GalleryIndexPage ==
  [ GalleryPage EXCEPT
      !.path = << << "g", "a", "l", "l", "e", "r", "y" >>,
                  << "i", "n", "d", "e", "x", ".", "h", "t", "m", "l" >> >> ]

Locations == { GalleryPage, GalleryIndexPage }

\* src/umi-gallery/src/components/UmiGallery.jsx:16, the setTimeout delay (ms).
ScrollDelay == 100

\* isActive={selectedDataset?.id === dataset.id}
isActive_bySource(sel, dataset) ==
  sel # NoSelection /\ catalog[sel].source = dataset.source

isActive(sel, dataset) ==
  sel # NoSelection /\ catalog[sel].id = dataset.id

\* {DATASETS.map((dataset) => <DatasetCard ... />)}
CardGrid(sel) ==
  [ i \in 1 .. Len(catalog) |-> DatasetCard(catalog[i], isActive(sel, catalog[i])) ]

\* selectedDataset.topics.transforms?.map(...), then .cameras?.map(...): the
\* topic paths listed under the viewer.
SectionTopics(dataset) ==
  (IF "transforms" \in DOMAIN dataset.topics THEN dataset.topics.transforms ELSE << >>)
    \o (IF "cameras" \in DOMAIN dataset.topics THEN dataset.topics.cameras ELSE << >>)

\* The viewer section with the adapter fed the prop mcapUrl of the Foxglove
\* version of the gallery, which the descriptors no longer carry.
ViewerSection_mcapUrl(sel) ==
  IF sel # NoSelection
    THEN [ panel |-> "viewer",
           name |-> catalog[sel].name,
           source |-> catalog[sel].source,
           description |-> catalog[sel].description,
           topics |-> SectionTopics(catalog[sel]),
           adapters |-> << [ type |-> "RerunViewer",
                             rrdUrl |-> Prop(catalog[sel], "mcapUrl") ] >> ]
    ELSE [ panel |-> "placeholder", adapters |-> << >> ]

\* {selectedDataset ? <> ... <RerunViewer rrdUrl={selectedDataset.rrdUrl}/> ... </>
\*                  : placeholder}
ViewerSection(sel) ==
  IF sel # NoSelection
    THEN [ panel |-> "viewer",
           name |-> catalog[sel].name,
           source |-> catalog[sel].source,
           description |-> catalog[sel].description,
           topics |-> SectionTopics(catalog[sel]),
           adapters |-> << [ type |-> "RerunViewer",
                             rrdUrl |-> Prop(catalog[sel], "rrdUrl") ] >> ]
    ELSE [ panel |-> "placeholder", adapters |-> << >> ]

\* The WebViewer widget inside a RerunViewer instance when the instance is
\* rendered: kept, with its rrd prop changed, while RerunViewer returns the
\* embed; mounted where there was none; unmounted when RerunViewer returns
\* the placeholder or throws.
ReconcileWidget(widget, view, now) ==
  IF view.kind # "embed" THEN << >>
  ELSE IF widget # << >> THEN << [ widget[1] EXCEPT !.rrd = view.rrd ] >>
  ELSE << [ instance |-> now, mountedWith |-> view.rrd, rrd |-> view.rrd ] >>

\* A RerunViewer instance mounted for an element with these props.
Mount(props, now) ==
  LET view == RerunViewer(props.rrdUrl, location) IN
  [ instance |-> now,
    mountedWith |-> props.rrdUrl,
    rrdUrl |-> props.rrdUrl,
    view |-> view,
    widget |-> ReconcileWidget(<< >>, view, now) ]

\* A mounted RerunViewer instance rendered again with new props.
Update(instance, props, now) ==
  LET view == RerunViewer(props.rrdUrl, location) IN
  [ instance EXCEPT
      !.rrdUrl = props.rrdUrl,
      !.view = view,
      !.widget = ReconcileWidget(instance.widget, view, now) ]

\* Reconciliation as it would be with key={selectedDataset.id} on the element:
\* a new selection unmounts the instance and mounts another.
Reconcile_keyed(mounted, section, now) ==
  IF section.adapters = << >> THEN << >>
  ELSE IF mounted # << >> /\ mounted[1].rrdUrl = section.adapters[1].rrdUrl
    THEN << Update(mounted[1], section.adapters[1], now) >>
    ELSE << Mount(section.adapters[1], now) >>

\* What React does with the RerunViewer element when the controller renders
\* again: an element of the same type at the same place and with no key keeps
\* its instance and gets the new props; otherwise instances mount or unmount.
Reconcile(mounted, section, now) ==
  IF section.adapters = << >> THEN << >>
  ELSE IF mounted # << >>
    THEN << Update(mounted[1], section.adapters[1], now) >>
    ELSE << Mount(section.adapters[1], now) >>

\* The DOM node React creates for a thumbnail element.  An <img> starts with
\* no inline style and one request for its src under way.
MountThumbnail(element) ==
  IF element.type = "img"
    THEN [ type |-> "img", src |-> element.src, alt |-> element.alt,
           display |-> << >>, requests |-> 1, status |-> "loading" ]
    ELSE element

\* Every render remounting the thumbnail, as with a key that changes from one
\* render to the next.
UpdateThumbnail_remount(node, element) == MountThumbnail(element)

\* What React does with the node of a thumbnail when the card renders again:
\* an element of the same type keeps its node and gets the props that
\* changed (a new src starts a new request); style is no prop of the <img>,
\* so the inline style of the node is left as it is.
UpdateThumbnail(node, element) ==
  IF node.type # element.type THEN MountThumbnail(element)
  ELSE IF node.type = "img"
    THEN IF node.src = element.src
           THEN [ node EXCEPT !.alt = element.alt ]
           ELSE [ node EXCEPT !.src = element.src, !.alt = element.alt,
                              !.requests = @ + 1, !.status = "loading" ]
    ELSE element

\* The thumbnail areas after the first render of the grid.
MountGrid(cards) == [ i \in DOMAIN cards |-> MountThumbnail(cards[i].thumbnail) ]

\* The thumbnail areas after the grid renders again.
UpdateGrid(nodes, cards) ==
  [ i \in DOMAIN cards |-> UpdateThumbnail(nodes[i], cards[i].thumbnail) ]

Init ==
  /\ catalog \in { DATASETS, datasets_genrobot }
  /\ selectedDataset = NoSelection
  /\ timers = << >>
  /\ viewer = << >>
  /\ clickLog = << >>
  /\ scrollLog = << >>
  /\ thumbnails = MountGrid(CardGrid(NoSelection))
  /\ location \in Locations
  /\ fileRef = undefined
  /\ rerunView = Unrendered
  /\ foxgloveView = Unrendered
  /\ cardProps = << >>
  /\ cardView = Unrendered

\* A click handler that toggles: a click on the selected card deselects it.
handleCardClick_toggle(i) ==
  /\ Len(clickLog) < MaxClicks
  /\ selectedDataset' = IF selectedDataset = i THEN NoSelection ELSE i
  /\ timers' = Append(timers, [ click |-> Len(clickLog) + 1, delay |-> ScrollDelay ])
  /\ viewer' = Reconcile(viewer, ViewerSection(selectedDataset'), Len(clickLog) + 1)
  /\ clickLog' = Append(clickLog, i)
  /\ thumbnails' = UpdateGrid(thumbnails, CardGrid(selectedDataset'))
  /\ UNCHANGED << catalog, scrollLog, location, adapterVars, cardVars >>

\* A click handler that scrolls only when the selection changes.
handleCardClick_scrollOnChange(i) ==
  /\ Len(clickLog) < MaxClicks
  /\ selectedDataset' = i
  /\ timers' = IF selectedDataset = i THEN timers
               ELSE Append(timers, [ click |-> Len(clickLog) + 1, delay |-> ScrollDelay ])
  /\ viewer' = Reconcile(viewer, ViewerSection(i), Len(clickLog) + 1)
  /\ clickLog' = Append(clickLog, i)
  /\ thumbnails' = UpdateGrid(thumbnails, CardGrid(selectedDataset'))
  /\ UNCHANGED << catalog, scrollLog, location, adapterVars, cardVars >>

\* onClick={() => handleCardClick(dataset)}: the state update, the render
\* that follows it, and the scheduling of the scroll.
handleCardClick(i) ==
  /\ Len(clickLog) < MaxClicks
  /\ selectedDataset' = i
  /\ timers' = Append(timers, [ click |-> Len(clickLog) + 1, delay |-> ScrollDelay ])
  /\ viewer' = Reconcile(viewer, ViewerSection(i), Len(clickLog) + 1)
  /\ clickLog' = Append(clickLog, i)
  /\ thumbnails' = UpdateGrid(thumbnails, CardGrid(selectedDataset'))
  /\ UNCHANGED << catalog, scrollLog, location, adapterVars, cardVars >>

\* The setTimeout callback: viewerRef.current?.scrollIntoView(...).
ScrollCallback ==
  /\ timers # << >>
  /\ scrollLog' = Append(scrollLog, [ click |-> Head(timers).click,
                                      selected |-> selectedDataset ])
  /\ timers' = Tail(timers)
  /\ UNCHANGED << catalog, selectedDataset, viewer, clickLog, thumbnails, location,
                  adapterVars, cardVars >>

Next ==
  \/ \E i \in 1 .. Len(catalog) : handleCardClick(i)
  \/ ScrollCallback

Spec == Init /\ [][Next]_vars

\* Timers that are due run: the event loop is never starved.
FairSpec == Spec /\ WF_vars(ScrollCallback)


\* ------------------------------------------------------------ thumbnails

\* 'none'
none == << "n", "o", "n", "e" >>

\* A catalog with the thumbnail of its second descriptor left out, that of
\* its third a placeholder path, './thumbnails/placeholder.jpg', and that of
\* its fourth the empty string.
datasets_placeholder ==
  [ i \in 1 .. Len(datasets_js) |->
      IF i = 2
        THEN [ f \in DOMAIN datasets_js[i] \ { "thumbnail" } |-> datasets_js[i][f] ]
      ELSE IF i = 3
        THEN [ datasets_js[i] EXCEPT !.thumbnail = ThumbnailPath(placeholder) ]
      ELSE IF i = 4
        THEN [ datasets_js[i] EXCEPT !.thumbnail = << >> ]
      ELSE datasets_js[i] ]

ThumbnailInit ==
  /\ catalog \in { DATASETS, datasets_genrobot, datasets_placeholder }
  /\ selectedDataset = NoSelection
  /\ timers = << >>
  /\ viewer = << >>
  /\ clickLog = << >>
  /\ scrollLog = << >>
  /\ thumbnails = MountGrid(CardGrid(NoSelection))
  /\ location = GalleryPage
  /\ fileRef = undefined
  /\ rerunView = Unrendered
  /\ foxgloveView = Unrendered
  /\ cardProps = << >>
  /\ cardView = Unrendered

\* The thumbnails of the grid whose request has failed.
Failed == { i \in DOMAIN thumbnails :
              thumbnails[i].type = "img" /\ thumbnails[i].status = "failed" }

\* The request for the src of the <img> of card i fails and the browser
\* fires its error event:  onError={(e) => { e.target.style.display = 'none' }}
ThumbnailError(i) ==
  /\ thumbnails[i].type = "img"
  /\ thumbnails[i].status = "loading"
  /\ thumbnails' = [ thumbnails EXCEPT ![i].status = "failed", ![i].display = none ]
  /\ UNCHANGED << catalog, selectedDataset, timers, viewer, clickLog, scrollLog,
                  location, adapterVars, cardVars >>

ThumbnailNext ==
  \/ \E i \in 1 .. Len(catalog) : Len(clickLog) < MaxRerenders /\ handleCardClick(i)
  \/ ScrollCallback
  \/ \E i \in 1 .. Len(catalog) : ThumbnailError(i)

ThumbnailSpec == ThumbnailInit /\ [][ThumbnailNext]_vars

\* ------------------------------------------------------------ an adapter alone

\* The references tried character by character.
RefAlphabet == { "h", "t", "p", "/", "." }

BoundedRefs == UNION { [ 1 .. n -> RefAlphabet ] : n \in 1 .. MaxRefLen }

ExampleRefs ==
  { \* https://x/a.mcap
    << "h", "t", "t", "p", "s", ":", "/", "/", "x", "/", "a", ".", "m", "c", "a", "p" >>,
    \* http://x/a b.mcap
    << "h", "t", "t", "p", ":", "/", "/", "x", "/", "a", " ", "b", ".", "m", "c", "a",
       "p" >>,
    \* ftp://x/a.mcap
    << "f", "t", "p", ":", "/", "/", "x", "/", "a", ".", "m", "c", "a", "p" >>,
    \* s3://bucket/../a.rrd
    << "s", "3", ":", "/", "/", "b", "u", "c", "k", "e", "t", "/", ".", ".", "/", "a",
       ".", "r", "r", "d" >> }

CatalogRefs == { DATASETS[i].rrdUrl : i \in 1 .. Len(DATASETS) }

\* No prop, the empty string, or a reference.
FileRefs ==
  { undefined, << >> } \cup BoundedRefs \cup ExampleRefs \cup CatalogRefs

AdapterInit ==
  /\ fileRef \in FileRefs
  /\ location \in Locations
  /\ rerunView = Unrendered
  /\ foxgloveView = Unrendered
  /\ catalog = << >>
  /\ selectedDataset = NoSelection
  /\ timers = << >>
  /\ viewer = << >>
  /\ clickLog = << >>
  /\ scrollLog = << >>
  /\ thumbnails = << >>
  /\ cardProps = << >>
  /\ cardView = Unrendered

\* <RerunViewer rrdUrl={fileRef} />
RenderRerunViewer ==
  /\ rerunView = Unrendered
  /\ rerunView' = RerunViewer(fileRef, location)
  /\ UNCHANGED << galleryVars, location, fileRef, foxgloveView, cardVars >>

\* <FoxgloveViewer mcapUrl={fileRef} />
RenderFoxgloveViewer ==
  /\ foxgloveView = Unrendered
  /\ foxgloveView' = FoxgloveViewer(fileRef, location)
  /\ UNCHANGED << galleryVars, location, fileRef, rerunView, cardVars >>

AdapterNext == RenderRerunViewer \/ RenderFoxgloveViewer

AdapterSpec == AdapterInit /\ [][AdapterNext]_vars

\* ------------------------------------------------------------ a card alone

TopicPool ==
  { << "", "robot0", "vio", "eef_pose" >>, << "world", "left_hand", "eef" >> }

TopicLists == UNION { [ 1 .. n -> TopicPool ] : n \in 0 .. MaxTopics }

\* A category of a topics mapping: absent, or present with a list of paths.
Categories(lists) ==
  { [ present |-> FALSE, list |-> << >> ] }
    \cup { [ present |-> TRUE, list |-> l ] : l \in lists }

Category(name, c) == IF c.present THEN name :> c.list ELSE << >>

\* The descriptors a card is rendered for: the first of the catalog with
\* every topics mapping over transforms, tactile and cameras.
CardDatasets ==
  { [ DATASETS[1] EXCEPT
        !.topics = Category("transforms", tr) @@ Category("tactile", ta)
                     @@ Category("cameras", cam) ] :
      tr \in Categories(TopicLists), ta \in Categories(TopicLists),
      cam \in Categories({ DATASETS[1].topics.cameras }) }
    \cup { DATASETS[i] : i \in 1 .. Len(DATASETS) }

CardInit ==
  /\ cardProps \in [ dataset : CardDatasets, isActive : BOOLEAN ]
  /\ cardView = Unrendered
  /\ location = GalleryPage
  /\ fileRef = undefined
  /\ rerunView = Unrendered
  /\ foxgloveView = Unrendered
  /\ catalog = << >>
  /\ selectedDataset = NoSelection
  /\ timers = << >>
  /\ viewer = << >>
  /\ clickLog = << >>
  /\ scrollLog = << >>
  /\ thumbnails = << >>

\* <DatasetCard dataset={...} isActive={...} />
RenderDatasetCard ==
  /\ cardView = Unrendered
  /\ cardView' = DatasetCard(cardProps.dataset, cardProps.isActive)
  /\ UNCHANGED << galleryVars, location, adapterVars, cardProps >>

CardNext == RenderDatasetCard

CardSpec == CardInit /\ [][CardNext]_vars

\* ------------------------------------------------------------ gallery claims

\* C1: the selection starts as no selection, and at every moment it is the
\* descriptor of the most recently clicked card (none before the first
\* click); a click on the selected card leaves it selected, and the scroll
\* callback, which adds nothing to the click history, leaves it alone.
C1_SelectionIsLastClick ==
  selectedDataset = (IF clickLog = << >> THEN NoSelection ELSE Last(clickLog))

\* X, then Y, then Y again have been clicked and a scroll callback has run.
C1_Witness ==
  /\ Len(clickLog) = 3
  /\ clickLog[1] # clickLog[2]
  /\ clickLog[2] = clickLog[3]
  /\ scrollLog # << >>
  /\ selectedDataset = clickLog[3]

ActiveCards == { i \in 1 .. Len(catalog) : CardGrid(selectedDataset)[i].activeIndicator }

\* C2: no card shows the active indicator while nothing is selected, and
\* exactly one does while a descriptor is selected: the card of that
\* descriptor.
C2_OneActiveCard ==
  IF selectedDataset = NoSelection
    THEN ActiveCards = { }
    ELSE Cardinality(ActiveCards) = 1 /\ ActiveCards = { selectedDataset }

\* X then Y have been clicked and only the card of Y is active.
C2_Witness ==
  /\ Len(clickLog) >= 2
  /\ clickLog[1] # Last(clickLog)
  /\ ActiveCards = { Last(clickLog) }

\* C6: a viewer adapter is rendered exactly when a descriptor is selected.
\* With no selection the section is the placeholder panel and nothing is
\* mounted; with descriptor d selected there is one adapter, it is fed the
\* file reference of d, the descriptor of the last clicked card, and the
\* section shows the name, source and description of d.
C6_ViewerIffSelected ==
  LET section == ViewerSection(selectedDataset) IN
  IF selectedDataset = NoSelection
    THEN section.panel = "placeholder" /\ section.adapters = << >> /\ viewer = << >>
    ELSE LET d == catalog[Last(clickLog)] IN
         /\ section.panel = "viewer"
         /\ Len(section.adapters) = 1
         /\ section.adapters[1].rrdUrl = d.rrdUrl
         /\ section.name = d.name
         /\ section.source = d.source
         /\ section.description = d.description
         /\ Len(viewer) = 1
         /\ viewer[1].rrdUrl = d.rrdUrl
         /\ viewer[1].view.kind = "embed"
         /\ viewer[1].view.overlay = d.rrdUrl

\* A second, different card has been clicked and the adapter shows its file.
C6_Witness ==
  /\ Len(clickLog) >= 2
  /\ clickLog[1] # Last(clickLog)
  /\ Len(viewer) = 1
  /\ viewer[1].rrdUrl = catalog[Last(clickLog)].rrdUrl

UniqueIds(datasets) ==
  \A i, j \in 1 .. Len(datasets) : i # j => datasets[i].id # datasets[j].id

\* C7: the ids of the catalog are pairwise different, and no step of the
\* controller (card click, scroll callback) changes the catalog.
C7_CatalogFixedUniqueIds ==
  /\ [](UniqueIds(catalog))
  /\ [][catalog' = catalog]_vars

\* Clicks and a scroll have happened and the catalog is the imported one.
C7_Witness ==
  /\ Len(clickLog) >= 2
  /\ scrollLog # << >>
  /\ catalog = DATASETS

\* Every click so far has one scroll, pending or done; scroll k belongs to
\* click k and ran when the selection was that of click k or of a later click.
ScrollPerClick ==
  /\ Len(scrollLog) + Len(timers) = Len(clickLog)
  /\ \A k \in 1 .. Len(timers) : timers[k].click = Len(scrollLog) + k
  /\ \A k \in 1 .. Len(scrollLog) :
       /\ scrollLog[k].click = k
       /\ \E j \in k .. Len(clickLog) : scrollLog[k].selected = clickLog[j]

\* C8: every card click schedules exactly one deferred scroll, also a click
\* on the selected card; a scroll runs only after the selection update of
\* its click; no pending scroll is cancelled; and the n-th click is
\* eventually followed by the n-th scroll.
C8_OneScrollPerClick ==
  /\ []ScrollPerClick
  /\ \A n \in 1 .. MaxClicks : (Len(clickLog) >= n) ~> (Len(scrollLog) >= n)

\* Three clicks, the last on the selected card, and three scrolls have run.
C8_Witness ==
  /\ Len(clickLog) = 3
  /\ clickLog[2] = clickLog[3]
  /\ Len(scrollLog) = 3
  /\ timers = << >>

\* C9 as claimed: the viewer instance that is mounted, and the WebViewer
\* widget in it, were mounted for the selected descriptor, so none mounted
\* for an earlier selection remains.
C9_PreviousViewerUnmounted ==
  viewer # << >> =>
    /\ viewer[1].mountedWith = catalog[selectedDataset].rrdUrl
    /\ viewer[1].widget # << >> => viewer[1].widget[1].mountedWith = viewer[1].view.rrd

\* C9 as the code has it: the RerunViewer instance mounted at the first
\* selection, and the WebViewer widget in it, stay mounted through every
\* later selection; they are rendered again with the file reference of the
\* new selection.
C9_ViewerInstanceKept ==
  viewer # << >> =>
    /\ viewer[1].instance = 1
    /\ viewer[1].mountedWith = catalog[clickLog[1]].rrdUrl
    /\ viewer[1].rrdUrl = catalog[selectedDataset].rrdUrl
    /\ Len(viewer[1].widget) = 1
    /\ viewer[1].widget[1].instance = 1
    /\ viewer[1].widget[1].mountedWith =
         RerunViewer(catalog[clickLog[1]].rrdUrl, location).rrd
    /\ viewer[1].widget[1].rrd =
         RerunViewer(catalog[selectedDataset].rrdUrl, location).rrd

\* Y is selected after X and the instance mounted for X is still the one shown.
C9_Witness ==
  /\ Len(clickLog) >= 2
  /\ clickLog[1] # Last(clickLog)
  /\ viewer # << >>
  /\ viewer[1].mountedWith = catalog[clickLog[1]].rrdUrl
  /\ viewer[1].rrdUrl = catalog[Last(clickLog)].rrdUrl
  /\ viewer[1].widget # << >>
  /\ viewer[1].widget[1].mountedWith # viewer[1].widget[1].rrd

\* ------------------------------------------------------------ adapter claims

HasScheme(r) == SchemeEnd(r) # 0

\* The URL that the claim gives for fileRef is the one an adapter arrived at:
\* fileRef itself when it has a scheme, else its resolution against the page,
\* a TypeError where that resolution fails.
ResolvedAsClaimed(kind, url) ==
  IF HasScheme(fileRef) THEN kind = "embed" /\ url = fileRef
  ELSE LET standard == URLResolve(fileRef, location) IN
       IF standard.failure THEN kind = "throw"
       ELSE kind = "embed" /\ url = standard.href

\* C3: for every non-empty file reference and page location, the URL each
\* adapter resolves is the reference unchanged when the reference has a
\* scheme, and otherwise the standard resolution of the reference against
\* the page location.
C3_AdaptersResolveStandard ==
  Truthy(fileRef) =>
    /\ rerunView.kind # "unrendered" =>
         ResolvedAsClaimed(rerunView.kind,
                           IF rerunView.kind = "embed" THEN rerunView.rrd ELSE << >>)
    /\ foxgloveView.kind # "unrendered" =>
         ResolvedAsClaimed(foxgloveView.kind,
                           IF foxgloveView.kind = "embed"
                             THEN foxgloveView.fullMcapUrl ELSE << >>)

\* The characters that the serialiser of URLSearchParams escapes, read back.
RECURSIVE FormDecode(_)
FormDecode(s) ==
  IF s = << >> THEN << >>
  ELSE IF Head(s) = "+" THEN << " " >> \o FormDecode(Tail(s))
  ELSE IF Head(s) = "%" /\ Len(s) >= 3
    THEN << CHOOSE c \in { "/", ":", "%", "?", "#", "&", "=", "+", "@", "~" } :
              HexOf(c) = << s[2], s[3] >> >>
           \o FormDecode(SubSeq(s, 4, Len(s)))
  ELSE << Head(s) >> \o FormDecode(Tail(s))

ExampleMcapUrl ==
  << "h", "t", "t", "p", "s", ":", "/", "/", "x", "/", "a", ".", "m", "c", "a", "p" >>

\* https://embed.foxglove.dev/?ds=remote-file&ds.url=
TargetPrefixWithSlash ==
  << "h", "t", "t", "p", "s", ":", "/", "/", "e", "m", "b", "e", "d", ".", "f", "o",
     "x", "g", "l", "o", "v", "e", ".", "d", "e", "v", "/", "?", "d", "s", "=", "r",
     "e", "m", "o", "t", "e", "-", "f", "i", "l", "e", "&", "d", "s", ".", "u", "r",
     "l", "=" >>

\* https://embed.foxglove.dev?ds=remote-file&ds.url=
TargetPrefix ==
  << "h", "t", "t", "p", "s", ":", "/", "/", "e", "m", "b", "e", "d", ".", "f", "o",
     "x", "g", "l", "o", "v", "e", ".", "d", "e", "v", "?", "d", "s", "=", "r", "e",
     "m", "o", "t", "e", "-", "f", "i", "l", "e", "&", "d", "s", ".", "u", "r", "l",
     "=" >>

\* https%3A%2F%2Fx%2Fa.mcap
ExampleMcapUrlEncoded ==
  << "h", "t", "t", "p", "s", "%", "3", "A", "%", "2", "F", "%", "2", "F", "x", "%",
     "2", "F", "a", ".", "m", "c", "a", "p" >>

\* The target of the iframe is prefix, then a value with no character left
\* that could end or split the parameter, which reads back as the resolved
\* URL; for https://x/a.mcap it is prefix, then https%3A%2F%2Fx%2Fa.mcap.
TargetIs(prefix) ==
  LET src == foxgloveView.src
      value == SubSeq(src, Len(prefix) + 1, Len(src))
  IN  /\ startsWith(src, prefix)
      /\ \A k \in 1 .. Len(value) : value[k] \in FormUnreserved \cup { "%", "+" }
      /\ FormDecode(value) = foxgloveView.fullMcapUrl
      /\ fileRef = ExampleMcapUrl => src = prefix \o ExampleMcapUrlEncoded

\* C4 as claimed: the iframe target is https://embed.foxglove.dev/ followed
\* by ?ds=remote-file&ds.url= and the escaped resolved URL.
C4_TargetUrlWithSlash ==
  foxgloveView.kind = "embed" => TargetIs(TargetPrefixWithSlash)

\* C4 as the code has it: the iframe target is https://embed.foxglove.dev,
\* with no '/' after the host, followed by ?ds=remote-file&ds.url= and the
\* resolved URL escaped as URLSearchParams escapes it; these are the only two
\* parameters, in this order.
C4_TargetUrl ==
  foxgloveView.kind = "embed" => TargetIs(TargetPrefix)

\* The iframe adapter has been rendered for https://x/a.mcap.
C4_Witness ==
  /\ fileRef = ExampleMcapUrl
  /\ foxgloveView.kind = "embed"
  /\ foxgloveView.fullMcapUrl = ExampleMcapUrl
  /\ foxgloveView.src = TargetPrefix \o ExampleMcapUrlEncoded

\* C5: with no file reference or the empty one an adapter renders the
\* placeholder and makes no attempt at resolving a URL; with any other
\* reference it renders its embed.
C5_PlaceholderIffNoReference ==
  /\ rerunView.kind # "unrendered" =>
       IF Truthy(fileRef) THEN rerunView.kind = "embed"
       ELSE rerunView.kind = "placeholder" /\ ~rerunView.newURL
  /\ foxgloveView.kind # "unrendered" =>
       IF Truthy(fileRef) THEN foxgloveView.kind = "embed"
       ELSE foxgloveView.kind = "placeholder" /\ ~foxgloveView.newURL

\* ------------------------------------------------------------ card claims

\* C10 as claimed: a card shows at most two topic tags.
C10_AtMostTwoTags ==
  cardView.kind = "card" => Len(cardView.tags) <= 2

\* C10 as the code has it: a card shows at most three topic tags: one for
\* each of the first two transforms topics, and one more when the descriptor
\* has a tactile category; no other category adds a tag.
C10_AtMostThreeTags ==
  cardView.kind = "card" =>
    LET topics == cardProps.dataset.topics
        transforms == IF "transforms" \in DOMAIN topics THEN Len(topics.transforms) ELSE 0
        tactile == IF "tactile" \in DOMAIN topics THEN 1 ELSE 0
    IN  /\ Len(cardView.tags) = (IF transforms < 2 THEN transforms ELSE 2) + tactile
        /\ Len(cardView.tags) <= 3

\* A card of a descriptor with three transforms topics, tactile topics and
\* cameras has been rendered, with three tags.
C10_Witness ==
  /\ cardView.kind = "card"
  /\ "transforms" \in DOMAIN cardProps.dataset.topics
  /\ Len(cardProps.dataset.topics.transforms) = 3
  /\ "tactile" \in DOMAIN cardProps.dataset.topics
  /\ "cameras" \in DOMAIN cardProps.dataset.topics
  /\ Len(cardView.tags) = 3

\* ------------------------------------------------------------ thumbnail claims

\* The card of descriptor i shows an <img>: its thumbnail is present and is
\* not a placeholder path.
HasImage(i) ==
  /\ Truthy(Prop(catalog[i], "thumbnail"))
  /\ ~includes(Prop(catalog[i], "thumbnail"), placeholder)

\* Card i has an <img> exactly when its thumbnail is present and not a
\* placeholder path, and a failed <img> is hidden, was requested once, and
\* has not become the fallback icon.
FailedImagesHidden ==
  \A i \in DOMAIN thumbnails :
    /\ thumbnails[i].type = "img" <=> HasImage(i)
    /\ i \in Failed =>
         /\ thumbnails[i].display = none
         /\ thumbnails[i].requests = 1
         /\ thumbnails[i].src = catalog[i].thumbnail

\* A step in which the <img> of card i fails hides that <img> and changes
\* nothing else: not another thumbnail, the selection, the active indicator
\* of a card, the viewer, the timers or the logs.
FailureHidesOnly(i) ==
  (thumbnails[i].type = "img" /\ thumbnails[i].status = "loading"
     /\ thumbnails'[i].status = "failed")
  => /\ thumbnails' = [ thumbnails EXCEPT ![i].status = "failed", ![i].display = none ]
     /\ selectedDataset' = selectedDataset
     /\ \A k \in DOMAIN catalog :
          isActive(selectedDataset', catalog[k]) = isActive(selectedDataset, catalog[k])
     /\ UNCHANGED << catalog, viewer, timers, clickLog, scrollLog >>

\* No step, a render of the grid after a click included, shows a hidden
\* <img> again, requests its src again or puts the fallback icon in its place.
HiddenStaysHidden(i) ==
  i \in Failed =>
    /\ thumbnails'[i].type = "img"
    /\ thumbnails'[i].display = none
    /\ thumbnails'[i].status = "failed"
    /\ thumbnails'[i].requests = thumbnails[i].requests

\* C11: for a card whose thumbnail is present and not a placeholder path, a
\* thumbnail load failure hides the image element and nothing else: the
\* image is never shown again and never requested again, the fallback icon
\* does not take its place afterwards, and the selection and the active
\* indicators of the cards are unchanged by the failure.
C11_FailureHidesImageOnly ==
  /\ []FailedImagesHidden
  /\ [][\A i \in DOMAIN thumbnails : FailureHidesOnly(i) /\ HiddenStaysHidden(i)]_vars

\* The thumbnail of the selected card has failed and is hidden, the grid has
\* rendered MaxRerenders times since it was mounted, the thumbnail of another
\* card is still loading and shown, and a third card has the fallback icon.
C11_Witness ==
  /\ Len(clickLog) = MaxRerenders
  /\ selectedDataset # NoSelection
  /\ selectedDataset \in Failed
  /\ thumbnails[selectedDataset].display = none
  /\ \E j \in DOMAIN thumbnails :
       /\ thumbnails[j].type = "img"
       /\ thumbnails[j].status = "loading"
       /\ thumbnails[j].display = << >>
  /\ \E k \in DOMAIN thumbnails : thumbnails[k].type = "icon"

====
